---------------------------- MODULE Spec2Model ----------------------------
(***************************************************************************)
(* Verification model of the JARZ-AI backend: the chat agent graph        *)
(* (backend/app/agent/graph.py, nodes.py), the outward SSE translation    *)
(* (backend/app/main.py), the TTL result cache (backend/app/cache.py)     *)
(* with the tool dispatcher (backend/app/agent/tools.py), and the         *)
(* streaming completion parser (backend/app/llm_client.py) and the        *)
(* data-provider client (backend/app/scansan_client.py).                  *)
(*                                                                         *)
(* Eleven specifications share the module:                                 *)
(*   Spec          one turn of the chat graph and its event stream        *)
(*   CacheSpec     the cache module under direct get / set_ and restarts  *)
(*   DispatchSpec  execute_tool over the cache, with restarts             *)
(*   FaultSpec     execute_tool over a cache file damaged from outside    *)
(*   ParserSpec    stream_chat_completion over a line stream              *)
(*   StoreSpec     requests to /api/chat/stream over the conversation     *)
(*                 store                                                   *)
(*   TaskSpec      the task of one turn and the consumer's disconnect     *)
(*   ThreadSpec    threads that call cache.set_ at the same time          *)
(*   ParserLiveSpec  ParserSpec with a line stream that ends               *)
(*   TurnsSpec     the tool loops of turns served at the same time        *)
(*   RequestSpec   calls of ScanSanClient._request, one after the other   *)
(***************************************************************************)
EXTENDS Naturals, Integers, Sequences, FiniteSets, TLC

VARIABLES
    \* ---- ChatAgentState (agent/state.py) and the graph position ----
    messages,            \* list[ChatMessage]
    pending_tool_calls,  \* list[PendingToolCall]
    a2ui_messages,       \* list of UI-render messages
    stream_output,       \* list of stream items kept in the state
    error,               \* Optional[str]
    status,              \* str
    should_continue,     \* bool
    node,                \* the node the graph runs next ("chat", "tool_executor", "END")
    events,              \* what stream_chat_agent has yielded so far
    sse,                 \* what generate_chat_sse_events has yielded so far
    rounds,              \* chat -> tool_executor -> chat round trips so far
    llm_calls,           \* language-model calls made in the turn
    tool_runs,           \* execute_tool calls started in the turn
    next_id,             \* next fresh tool-call id handed out by the model stub
    last_batch,          \* the batch the last tool_executor run worked on
    last_outcomes,       \* the outcome of each call of that batch
    last_node,           \* the node whose output the graph streamed last
    last_resp,           \* the kind of the last language-model response
    \* ---- cache.py and tools.execute_tool ----
    store,               \* _store: key -> (json_value, expiry_ts)
    disk,                \* contents of cache.json
    now,                 \* time.time()
    wseq,                \* number of values produced so far (tags each value)
    written,             \* per value tag: when and with which TTL set_ stored it
    last_get,            \* the last result handed out by get
    calls,               \* log of the execute_tool calls made so far
    boots,               \* process restarts so far
    \* ---- llm_client.stream_chat_completion ----
    text,                \* the unsplit argument text of slot 0
    rest,                \* the part of it not yet delivered
    tool_call_accumulator, \* index -> [id, name, arguments]
    chunks,              \* StreamChunks yielded so far
    ppc,                 \* parser position: "reading" or "closed"
    \* ---- db.py and the chat endpoint of main.py ----
    rows,                \* the messages table, in insertion (rowid) order
    convs,               \* the ids in the conversations table
    dbclock,             \* what _utc_now() returns
    reqs,                \* the requests to /api/chat/stream, by request number
    \* ---- the task that serves one turn, at its suspension points ----
    task,                \* position of the turn's task, its batch and its counters
    \* ---- threads inside cache.set_ ----
    thr,                 \* per thread: where it is in set_ and its snapshot
    \* ---- tool_executor_node runs of several turns ----
    turns,               \* per turn: where its loop is and what it started / saw end
    \* ---- one caller of ScanSanClient._request ----
    rq                   \* the call in progress: its attempts and its result

agentVars  == <<messages, pending_tool_calls, a2ui_messages, stream_output, error,
                status, should_continue, node, events, sse, rounds, llm_calls,
                tool_runs, next_id, last_batch, last_outcomes, last_node, last_resp>>
cacheVars  == <<store, disk, now, wseq, written, last_get, calls, boots>>
parserVars == <<text, rest, tool_call_accumulator, chunks, ppc>>
storeVars  == <<rows, convs, dbclock, reqs>>
taskVars   == <<task>>
threadVars == <<thr>>
turnVars   == <<turns>>
requestVars == <<rq>>
vars       == <<agentVars, cacheVars, parserVars, storeVars, taskVars, threadVars,
                turnVars, requestVars>>

----------------------------------------------------------------------------
(* Bounds of the model *)

MaxRounds == 2      \* tool rounds explored per turn
MaxBatch  == 2      \* tool calls per assistant message
MaxToolCalls == 3   \* tool calls the model stub issues over one turn
MaxTicks  == 3      \* clock steps explored
MaxWrites == 2      \* values produced (executor runs and direct set_ calls)
MaxCalls  == 2      \* execute_tool calls logged
MaxBoots  == 1      \* process restarts explored
MaxLen    == 3      \* characters of argument text of one tool call
MaxOther  == 2      \* fragments delivered to a second tool-call slot
MaxText   == 2      \* text fragments of one completion
MaxReqs   == 2      \* requests to the chat endpoint
MaxDbTicks == 2     \* steps of the database clock
MaxThreads == 2     \* threads that call set_ at the same time
MaxTurns  == 2      \* turns whose tool_executor_node runs at the same time
MaxRetries == 3     \* largest value of the retries parameter of _request
MaxRequests == 2    \* _request calls made one after the other

None == "None"

----------------------------------------------------------------------------
(* Sequence helpers *)

RECURSIVE FlatMap(_, _)
FlatMap(F(_), s) == IF s = <<>> THEN <<>> ELSE F(Head(s)) \o FlatMap(F, Tail(s))

----------------------------------------------------------------------------
(* Messages (agent/state.py ChatMessage).  content is abstracted to the    *)
(* success flag a tool message carries in its JSON body.                   *)

Msg(role, tool_calls, tool_call_id, success) ==
    [role |-> role, tool_calls |-> tool_calls, tool_call_id |-> tool_call_id,
     success |-> success]

SystemMsg        == Msg("system", <<>>, 0, TRUE)
UserMsg          == Msg("user", <<>>, 0, TRUE)
AssistantMsg(tc) == Msg("assistant", tc, 0, TRUE)

(* Stream items and events.  call is the id of the tool call an item       *)
(* belongs to (0 for none); ui is the list of UI-render messages.          *)
Item(type, tag, st, call, success, ui) ==
    [type |-> type, tag |-> tag, st |-> st, call |-> call, success |-> success,
     ui |-> ui]

TextItem           == Item("text", "", "", 0, TRUE, <<>>)
ToolStartItem(c)   == Item("tool_start", "", "", c, TRUE, <<>>)
ToolEndItem(c, ok) == Item("tool_end", "", "", c, ok, <<>>)
A2uiItem(c, ui)    == Item("a2ui", "", "", c, TRUE, ui)
NodeItem(n, st)    == Item("node", n, st, 0, TRUE, <<>>)
ErrorItem          == Item("error", "", "", 0, FALSE, <<>>)
CompleteItem(ui)   == Item("complete", "", "", 0, TRUE, ui)

(* One outward event of generate_chat_sse_events; msg is the UI-render     *)
(* message an a2ui event carries (NoMsg for none).                         *)
NoMsg == [call |-> 0, part |-> 0]
Sse(event, call, success, msg) ==
    [event |-> event, call |-> call, success |-> success, msg |-> msg]

----------------------------------------------------------------------------
(* The language-model stub: what one chat_completion call returns.         *)
(* "fail" raises, "text" is a plain answer, "tools" is a request for n     *)
(* tool calls with fresh ids, "bad_args" is a request for one tool call    *)
(* whose argument text is not valid JSON.                                  *)

Resp(kind, n) == [kind |-> kind, n |-> n]
Responses == {Resp("fail", 0), Resp("text", 0), Resp("bad_args", 1)}
                 \cup {Resp("tools", n) : n \in 1..MaxBatch}

\* llm_client.py 157: raise_for_status; 176-177: json.loads(args) is not
\* guarded, so undecodable argument text leaves chat_completion as an exception
ChatCompletionRaises(resp)  == resp.kind \in {"fail", "bad_args"}

NewCalls(n) == [i \in 1..n |-> [id |-> next_id + i - 1]]

(* What one tool call of a batch does inside tool_executor_node:           *)
(*   "ok_ui"  execute_tool returns success with UI-render messages         *)
(*   "ok"     execute_tool returns success without UI-render messages      *)
(*   "failed" execute_tool returns success=False (e.g. unknown tool)       *)
(*   "raise"  execute_tool raises inside the per-tool try                  *)
(*   "fault"  the node body raises outside the per-tool try                *)
Outcomes == {"ok_ui", "ok", "failed", "raise", "fault"}

UiOf(c) == <<[call |-> c, part |-> 1], [call |-> c, part |-> 2]>>

----------------------------------------------------------------------------
(* chat_node, nodes.py 313-438 *)

\* nodes.py 334-360: the system prompt is put in front when it is missing
WithSystemUnchecked(msgs) == <<SystemMsg>> \o msgs
WithSystem(msgs) ==
    IF msgs = <<>> \/ msgs[1].role # "system" THEN <<SystemMsg>> \o msgs ELSE msgs

\* graph.py 144-152
chat_should_continueIgnoresError(err, cont, pending) ==
    IF ~cont THEN "end"
    ELSE IF pending # <<>> THEN "execute_tools"
    ELSE "respond"
chat_should_continue(err, cont, pending) ==
    IF err # None THEN "end"
    ELSE IF ~cont THEN "end"
    ELSE IF pending # <<>> THEN "execute_tools"
    ELSE "respond"

\* graph.py 173-181: the conditional edges out of "chat"
ChatEdge(route) == IF route = "execute_tools" THEN "tool_executor" ELSE "END"

\* graph.py 286-315: what stream_chat_agent yields for one node output.
\* out is the node's own "stream_output" entry, err its "error" entry,
\* ui its "a2ui_messages" entry (each empty when the node did not return it).
NodeYield(n, st, out, err, ui) ==
    <<NodeItem(n, st)>> \o out
        \o (IF err # None THEN <<ErrorItem>> ELSE <<>>)
        \o (IF st = "complete" THEN <<CompleteItem(ui)>> ELSE <<>>)

\* main.py 487-576: the outward events one agent event is translated to
SseOf(item) ==
    CASE item.type = "node"       -> <<Sse("status", 0, TRUE, NoMsg)>>
      [] item.type = "text"       -> <<Sse("text", 0, TRUE, NoMsg)>>
      [] item.type = "tool_start" -> <<Sse("tool_start", item.call, TRUE, NoMsg)>>
      [] item.type = "tool_end"   -> <<Sse("tool_end", item.call, item.success, NoMsg)>>
      [] item.type = "a2ui"       ->
            [i \in 1..Len(item.ui) |-> Sse("a2ui", item.call, TRUE, item.ui[i])]
      [] item.type = "error"      -> <<Sse("error", 0, FALSE, NoMsg)>>
      [] item.type = "complete"   ->
            [i \in 1..Len(item.ui) |-> Sse("a2ui", item.ui[i].call, TRUE, item.ui[i])]
                \o <<Sse("complete", 0, TRUE, NoMsg)>>
      [] OTHER                    -> <<>>

Emit(yielded) ==
    /\ events' = events \o yielded
    /\ sse' = sse \o FlatMap(SseOf, yielded)

CHAT(resp) ==
    /\ node = "chat"
    /\ IF resp.kind = "tools"
       THEN rounds < MaxRounds /\ next_id + resp.n - 1 <= MaxToolCalls
       ELSE TRUE
    /\ llm_calls' = llm_calls + 1
    /\ last_node' = "chat"
    /\ last_resp' = resp.kind
    /\ UNCHANGED <<a2ui_messages, rounds, tool_runs, last_batch, last_outcomes>>
    /\ IF ChatCompletionRaises(resp)
       THEN \* nodes.py 433-438
            /\ error' = "Chat node failed"
            /\ status' = "error"
            /\ should_continue' = FALSE
            /\ UNCHANGED <<messages, pending_tool_calls, stream_output, next_id>>
            /\ Emit(NodeYield("chat", "error", <<>>, "Chat node failed", <<>>))
       ELSE IF resp.kind = "text"
       THEN \* nodes.py 418-431
            /\ messages' = WithSystem(messages) \o <<AssistantMsg(<<>>)>>
            /\ pending_tool_calls' = <<>>
            /\ stream_output' = <<TextItem>>
            /\ status' = "complete"
            /\ should_continue' = FALSE
            /\ UNCHANGED <<error, next_id>>
            /\ Emit(NodeYield("chat", "complete", <<TextItem>>, None, <<>>))
       ELSE \* nodes.py 386-416
            /\ messages' = WithSystem(messages) \o <<AssistantMsg(NewCalls(resp.n))>>
            /\ pending_tool_calls' = NewCalls(resp.n)
            /\ status' = "tool_calling"
            /\ should_continue' = TRUE
            /\ next_id' = next_id + resp.n
            /\ UNCHANGED <<error, stream_output>>
            /\ Emit(NodeYield("chat", "tool_calling", <<>>, None, <<>>))
    /\ node' = ChatEdge(chat_should_continue(error', should_continue', pending_tool_calls'))
    /\ UNCHANGED <<cacheVars, parserVars, storeVars, taskVars, threadVars, turnVars, requestVars>>

----------------------------------------------------------------------------
(* tool_executor_node, nodes.py 441-559 *)

\* nodes.py 475-481: the result the per-tool try leaves behind
ResultSuccess(o) == o \in {"ok_ui", "ok"}
ResultUi(c, o)   == IF o = "ok_ui" THEN UiOf(c.id) ELSE <<>>

\* the outcomes that leave the per-tool try as an exception
EscapesUnguarded(o) == o \in {"fault", "raise"}
Escapes(o) == o = "fault"

\* nodes.py 468-472, 491-499, 536-540: the stream items of one tool call
ToolItemsEndFirst(c, o) ==
    <<ToolStartItem(c.id), ToolEndItem(c.id, ResultSuccess(o))>>
        \o (IF ResultUi(c, o) # <<>> THEN <<A2uiItem(c.id, ResultUi(c, o))>> ELSE <<>>)
ToolItems(c, o) ==
    <<ToolStartItem(c.id)>>
        \o (IF ResultUi(c, o) # <<>> THEN <<A2uiItem(c.id, ResultUi(c, o))>> ELSE <<>>)
        \o <<ToolEndItem(c.id, ResultSuccess(o))>>

\* nodes.py 528-534: the tool message of one tool call
ToolMsg(c, o) == Msg("tool", <<>>, c.id, ResultSuccess(o))

\* nodes.py 463: the loop over pending_calls, in list order
BatchMsgsReversed(batch, outs) ==
    [i \in 1..Len(batch) |-> ToolMsg(batch[Len(batch) + 1 - i], outs[Len(batch) + 1 - i])]
BatchMsgs(batch, outs)  == [i \in 1..Len(batch) |-> ToolMsg(batch[i], outs[i])]
RECURSIVE BatchItems(_, _, _)
BatchItems(batch, outs, i) ==
    IF i > Len(batch) THEN <<>>
    ELSE ToolItems(batch[i], outs[i]) \o BatchItems(batch, outs, i + 1)
RECURSIVE BatchUi(_, _, _)
BatchUi(batch, outs, i) ==
    IF i > Len(batch) THEN <<>>
    ELSE ResultUi(batch[i], outs[i]) \o BatchUi(batch, outs, i + 1)

Faulted(outs) == \E i \in DOMAIN outs : Escapes(outs[i])
FirstFault(outs) == CHOOSE i \in DOMAIN outs :
                        Escapes(outs[i]) /\ \A j \in 1..(i - 1) : ~Escapes(outs[j])

TOOL_EXECUTOR(outs) ==
    /\ node = "tool_executor"
    /\ pending_tool_calls # <<>>
    /\ last_node' = "tool_executor"
    /\ last_batch' = pending_tool_calls
    /\ last_outcomes' = outs
    /\ UNCHANGED <<llm_calls, next_id, last_resp>>
    /\ IF Faulted(outs)
       THEN \* nodes.py 554-559: only error, status and should_continue are returned
            /\ error' = "Tool execution failed"
            /\ status' = "error"
            /\ should_continue' = FALSE
            /\ tool_runs' = tool_runs + FirstFault(outs)
            /\ UNCHANGED <<messages, pending_tool_calls, a2ui_messages, stream_output, rounds>>
            /\ Emit(NodeYield("tool_executor", "error", <<>>, "Tool execution failed", <<>>))
       ELSE \* nodes.py 544-552
            /\ messages' = messages \o BatchMsgs(pending_tool_calls, outs)
            /\ a2ui_messages' = a2ui_messages \o BatchUi(pending_tool_calls, outs, 1)
            /\ stream_output' = stream_output \o BatchItems(pending_tool_calls, outs, 1)
            /\ pending_tool_calls' = <<>>
            /\ status' = "tools_executed"
            /\ should_continue' = TRUE
            /\ tool_runs' = tool_runs + Len(pending_tool_calls)
            /\ rounds' = rounds + 1
            /\ UNCHANGED error
            /\ Emit(NodeYield("tool_executor", "tools_executed", stream_output', None,
                              a2ui_messages'))
    \* graph.py 184: the edge tool_executor -> chat is unconditional
    /\ node' = "chat"
    /\ UNCHANGED <<cacheVars, parserVars, storeVars, taskVars, threadVars, turnVars, requestVars>>

----------------------------------------------------------------------------
(* cache.py: the TTL cache.  Time is counted in seconds and advances in    *)
(* steps of half the default TTL, so that reads fall before, on and after  *)
(* an expiry timestamp.                                                    *)

\* cache.py 13
DEFAULT_TTL_SECONDS == 3600

TickSeconds == DEFAULT_TTL_SECONDS \div 2
TTLs        == {DEFAULT_TTL_SECONDS, TickSeconds}   \* config.py 26: settable

EmptyMap == [k \in {} |-> 0]

(* A value handed to set_ / returned by a tool.  stamp tells what the dict *)
(* holds besides JSON-native data: "none", a "datetime" object (schemas.py *)
(* 66, PredictionMetadata.timestamp), the "str" such an object is written  *)
(* as, or a "circular" reference json cannot write.  run tags the          *)
(* execution that produced the value.                                      *)
Val(success, stamp, ui, run) ==
    [success |-> success, stamp |-> stamp, ui |-> ui, run |-> run]
NoVal == Val(FALSE, "absent", FALSE, 0)

\* cache.py 89: json.dumps(value, default=str) writes non-JSON objects as str(...)
Serializable(v) == v.stamp # "circular"
Dumps(v) == [v EXCEPT !.stamp = IF @ = "datetime" THEN "str" ELSE @]
\* a stored payload that json.loads rejects: text that is not JSON, or a
\* "v" that is not a string (cache.py 33-40 takes "v" from the file as found)
Garbage == Val(FALSE, "garbage", FALSE, 0)
\* cache.py 79-82: json.loads of a stored payload; JSONDecodeError and
\* TypeError are turned into None
LoadsUnguarded(j) == j
Loads(j) == IF j = Garbage THEN NoVal ELSE j

\* cache.py 76: the expiry test of get
ExpiredNever(entry, t) == FALSE
Expired(entry, t) == t > entry.e

\* cache.py 69-82: get; the value returned (NoVal for None) ...
GetVal(st, key, t) ==
    IF key \notin DOMAIN st THEN NoVal
    ELSE IF Expired(st[key], t) THEN NoVal
    ELSE Loads(st[key].v)
\* ... and the store it leaves behind
GetStoreSweeps(st, key, t) ==
    IF key \in DOMAIN st /\ Expired(st[key], t)
    THEN [k \in {d \in DOMAIN st : ~Expired(st[d], t)} |-> st[k]]
    ELSE st
GetStore(st, key, t) ==
    IF key \in DOMAIN st /\ Expired(st[key], t)
    THEN [k \in DOMAIN st \ {key} |-> st[k]]
    ELSE st

\* cache.py 87-93: the locked part of set_
SetStore(st, key, v, ttl, t) ==
    IF ~Serializable(v) THEN st
    ELSE [k \in DOMAIN st \cup {key} |->
            IF k = key THEN [v |-> Dumps(v), e |-> t + ttl] ELSE st[k]]

\* cache.py 45-53: _save_to_disk.  io is what the file system does:
\* "ok", "open_fails" (OSError before anything is written) or "write_fails"
\* (OSError or a crash after open(..., "w") truncated the file).
IOs == {"ok", "open_fails", "write_fails"}
File(state, data) == [state |-> state, data |-> data]
SaveToDisk(st, dk, io) ==
    CASE io = "ok"          -> File("ok", st)
      [] io = "open_fails"  -> dk
      [] io = "write_fails" -> File("corrupt", EmptyMap)

\* cache.py 22-42: _load_from_disk
LoadFromDisk(st, dk, t) ==
    IF dk.state # "ok" THEN st
    ELSE LET live == {k \in DOMAIN dk.data : ~(dk.data[k].e <= t)} IN
         [k \in DOMAIN st \cup live |-> IF k \in live THEN dk.data[k] ELSE st[k]]

\* cache.py 60-66 and tools.py 1392-1394: the cache key of a tool call
CacheKey(name, args) == <<"tool", name, args>>

ToolNames == {"get_rent_forecast", "search_location", "compare_areas", "no_such_tool"}
\* "full": the arguments the tool needs; "bad": a required argument is
\* missing (get_rent_forecast, search_location) or an area is not a string
\* (compare_areas)
ArgKinds  == {"full", "bad"}
ToolKeys  == {CacheKey(n, a) : n \in ToolNames, a \in ArgKinds}
ApiKeys   == {<<"scansan", "e1", "">>, <<"scansan", "e2", "">>}   \* scansan_client.py 15-18
Keys      == ToolKeys \cup ApiKeys

CacheInit ==
    /\ store = EmptyMap
    /\ disk = File("absent", EmptyMap)
    /\ now = 0
    /\ wseq = 0
    /\ written = <<>>
    /\ last_get = [key |-> <<"", "", "">>, val |-> NoVal, t |-> 0]
    /\ calls = <<>>
    /\ boots = 0

Tick ==
    /\ now + TickSeconds <= MaxTicks * TickSeconds
    /\ now' = now + TickSeconds
    /\ UNCHANGED <<store, disk, wseq, written, last_get, calls, boots>>
    /\ UNCHANGED <<agentVars, parserVars, storeVars, taskVars, threadVars, turnVars, requestVars>>

\* cache.get(key)
GET(key) ==
    /\ last_get' = [key |-> key, val |-> GetVal(store, key, now), t |-> now]
    /\ store' = GetStore(store, key, now)
    /\ UNCHANGED <<disk, now, wseq, written, calls, boots>>
    /\ UNCHANGED <<agentVars, parserVars, storeVars, taskVars, threadVars, turnVars, requestVars>>

Written(key, v, ttl) == [key |-> key, val |-> v, t |-> now, ttl |-> ttl]

\* cache.set_(key, value, ttl_seconds), as scansan_client.py 89 calls it
SET(key, stamp, ttl, io) ==
    LET v == Val(TRUE, stamp, FALSE, wseq + 1) IN
    /\ wseq < MaxWrites
    /\ wseq' = wseq + 1
    /\ store' = SetStore(store, key, v, ttl, now)
    \* cache.py 90-91: set_ returns before _save_to_disk when dumps fails
    /\ disk' = IF Serializable(v) THEN SaveToDisk(store', disk, io) ELSE disk
    /\ written' = Append(written, IF Serializable(v) THEN Written(key, v, ttl)
                                   ELSE Written(<<"", "", "">>, v, ttl))
    /\ UNCHANGED <<now, last_get, calls, boots>>
    /\ UNCHANGED <<agentVars, parserVars, storeVars, taskVars, threadVars, turnVars, requestVars>>

\* a process restart: cache.py 19 and 57, the store is rebuilt from the file
RESTART ==
    /\ boots < MaxBoots
    /\ boots' = boots + 1
    /\ store' = LoadFromDisk(EmptyMap, disk, now)
    /\ UNCHANGED <<disk, now, wseq, written, last_get, calls>>
    /\ UNCHANGED <<agentVars, parserVars, storeVars, taskVars, threadVars, turnVars, requestVars>>

----------------------------------------------------------------------------
(* tools.py 1397-1534: execute_tool *)

Known(name) == name # "no_such_tool"

\* tools.py 1416, 1434: arguments["location"] / arguments["query"] raise
\* KeyError before the executor is entered
RaisesBeforeExecutor(name, args) ==
    name \in {"get_rent_forecast", "search_location"} /\ args = "bad"
\* tools.py 663: execute_compare_areas raises on an area that has no strip()
RaisesInExecutor(name, args) == name = "compare_areas" /\ args = "bad"

\* what the executor returns; found is the answer of the location search
ExecutorResult(name, found, run) ==
    CASE name = "get_rent_forecast" -> Val(TRUE, "datetime", TRUE, run)  \* tools.py 1420-1428, 537
      [] name = "search_location"   -> Val(found, "none", FALSE, run)    \* tools.py 1436-1440
      [] name = "compare_areas"     -> Val(TRUE, "none", TRUE, run)      \* tools.py 761-766
      [] OTHER                      -> NoVal

UnknownToolResult == Val(FALSE, "none", FALSE, 0)    \* tools.py 1530-1534
RaisedResult      == Val(FALSE, "raised", FALSE, 0)

Call(key, ran, raised, result) ==
    [key |-> key, t |-> now, ran |-> ran, raised |-> raised, result |-> result]

EXECUTE_TOOL(name, args, found, io) ==
    LET key    == CacheKey(name, args)
        cached == GetVal(store, key, now)
        st1    == GetStore(store, key, now)
        out    == ExecutorResult(name, found, wseq + 1)
    IN
    /\ Len(calls) < MaxCalls
    /\ UNCHANGED <<now, last_get, boots>>
    /\ UNCHANGED <<agentVars, parserVars, storeVars, taskVars, threadVars, turnVars, requestVars>>
    /\ IF cached # NoVal
       THEN \* tools.py 1410-1412
            /\ calls' = Append(calls, Call(key, FALSE, FALSE, cached))
            /\ store' = st1
            /\ UNCHANGED <<disk, wseq, written>>
       ELSE IF ~Known(name)
       THEN /\ calls' = Append(calls, Call(key, FALSE, FALSE, UnknownToolResult))
            /\ store' = st1
            /\ UNCHANGED <<disk, wseq, written>>
       ELSE IF RaisesBeforeExecutor(name, args)
       THEN /\ calls' = Append(calls, Call(key, FALSE, TRUE, RaisedResult))
            /\ store' = st1
            /\ UNCHANGED <<disk, wseq, written>>
       ELSE IF RaisesInExecutor(name, args)
       THEN /\ calls' = Append(calls, Call(key, TRUE, TRUE, RaisedResult))
            /\ store' = st1
            /\ UNCHANGED <<disk, wseq, written>>
       ELSE \* the executor returned: the result is stored, whatever its success
            /\ calls' = Append(calls, Call(key, TRUE, FALSE, out))
            /\ wseq' = wseq + 1
            /\ store' = SetStore(st1, key, out, DEFAULT_TTL_SECONDS, now)
            /\ disk' = SaveToDisk(store', disk, io)
            /\ written' = Append(written, Written(key, out, DEFAULT_TTL_SECONDS))

\* cache.json is changed from outside the process (an edit, a torn write
\* of another writer): the payload of one entry is no longer JSON text
FILE_DAMAGED(key) ==
    /\ disk.state = "ok"
    /\ key \in DOMAIN disk.data
    /\ disk.data[key].v # Garbage
    /\ disk' = File("ok", [disk.data EXCEPT ![key].v = Garbage])
    /\ UNCHANGED <<store, now, wseq, written, last_get, calls, boots>>
    /\ UNCHANGED <<agentVars, parserVars, storeVars, taskVars, threadVars, turnVars, requestVars>>

CacheNext ==
    \/ Tick
    \/ \E key \in ApiKeys : GET(key)
    \/ \E key \in ApiKeys, stamp \in {"none", "circular"},
          ttl \in TTLs, io \in IOs : SET(key, stamp, ttl, io)
    \/ RESTART

DispatchNext ==
    \/ Tick
    \/ RESTART
    \/ \E name \in ToolNames, args \in ArgKinds, found \in BOOLEAN, io \in IOs :
          EXECUTE_TOOL(name, args, found, io)

\* execute_tool over a cache file that can be damaged between two runs of
\* the process
FaultNext ==
    \/ RESTART
    \/ \E key \in ToolKeys : FILE_DAMAGED(key)
    \/ \E name \in ToolNames, args \in ArgKinds, found \in BOOLEAN, io \in IOs :
          EXECUTE_TOOL(name, args, found, io)

----------------------------------------------------------------------------
(* llm_client.py 190-301: stream_chat_completion.  The argument text of    *)
(* tool-call slot 0 is a string over a small alphabet; it reaches the      *)
(* parser cut into pieces, one per delta, possibly with deltas of slot 1   *)
(* in between.                                                             *)

Chars == {"{", "}", "a", "b"}

RECURSIVE Strings(_)
Strings(n) ==
    IF n = 0 THEN {<<>>}
    ELSE LET shorter == Strings(n - 1) IN
         shorter \cup {Append(t, c) : t \in {u \in shorter : Len(u) = n - 1}, c \in Chars}

\* json.loads on this alphabet: an object "{" keys "}" decodes to its key
\* set, anything else raises JSONDecodeError
WellFormed(t) ==
    /\ Len(t) >= 2
    /\ t[1] = "{"
    /\ t[Len(t)] = "}"
    /\ \A i \in 2..(Len(t) - 1) : t[i] \in {"a", "b"}
    /\ \A i \in 2..(Len(t) - 1) : \A j \in 2..(Len(t) - 1) : t[i] = t[j] => i = j
Decode(t) == {t[i] : i \in 2..(Len(t) - 1)}

\* llm_client.py 283-286: empty or undecodable text gives empty arguments
ParseArgs(t) == IF t # <<>> /\ WellFormed(t) THEN Decode(t) ELSE {}

Slot(id, name, arguments) == [id |-> id, name |-> name, arguments |-> arguments]

\* llm_client.py 276-277: a fragment is appended to the text of its slot
AppendPieceReplaces(acc, piece) == IF piece # <<>> THEN piece ELSE acc
AppendPiece(acc, piece) == IF piece # <<>> THEN acc \o piece ELSE acc

\* llm_client.py 260-277: one tc_delta is folded into the accumulator
Accumulate(accu, idx, id, name, piece) ==
    LET old == IF idx \in DOMAIN accu THEN accu[idx] ELSE Slot("", "", <<>>)
        new == Slot(IF id # "" THEN id ELSE old.id,
                    IF name # "" THEN name ELSE old.name,
                    AppendPiece(old.arguments, piece))
    IN [k \in DOMAIN accu \cup {idx} |-> IF k = idx THEN new ELSE accu[k]]

Chunk(type, index, id, name, arguments, finish) ==
    [type |-> type, index |-> index, id |-> id, name |-> name,
     arguments |-> arguments, finish |-> finish]
TextChunk       == Chunk("text", -1, "", "", {}, "")
DoneChunk(why)  == Chunk("done", -1, "", "", {}, why)

\* llm_client.py 281-295: the accumulated slots, in ascending index order
RECURSIVE EmitSlots(_, _)
EmitSlotsLowestOnly(accu, todo) ==
    IF todo = {} THEN <<>>
    ELSE LET idx == CHOOSE i \in todo : \A j \in todo : i <= j IN
         <<Chunk("tool_call", idx, accu[idx].id, accu[idx].name,
                 ParseArgs(accu[idx].arguments), "")>>
EmitSlots(accu, todo) ==
    IF todo = {} THEN <<>>
    ELSE LET idx == CHOOSE i \in todo : \A j \in todo : i <= j IN
         <<Chunk("tool_call", idx, accu[idx].id, accu[idx].name,
                 ParseArgs(accu[idx].arguments), "")>>
             \o EmitSlots(accu, todo \ {idx})

ParserInit ==
    /\ text \in Strings(MaxLen)
    /\ rest = text
    /\ tool_call_accumulator = EmptyMap
    /\ chunks = <<>>
    /\ ppc = "reading"

TextCount == Cardinality({i \in 1..Len(chunks) : chunks[i].type = "text"})

\* one "data: {...}" line, llm_client.py 239-301.  content: the delta has
\* text; idx: the slot of its tool-call fragment (-1 for none); k: the size
\* of the piece of argument text it carries; id: the call id it carries;
\* finish: its finish_reason.
LINE(content, idx, k, id, finish) ==
    LET piece == IF idx = 0 THEN SubSeq(rest, 1, k)
                 ELSE IF idx = 1 THEN <<"a">> ELSE <<>>
        accu  == IF idx = -1 THEN tool_call_accumulator
                 ELSE Accumulate(tool_call_accumulator, idx, id,
                                 IF id # "" THEN "get_rent_forecast" ELSE "", piece)
        out1  == IF content THEN <<TextChunk>> ELSE <<>>
    IN
    /\ ppc = "reading"
    /\ IF content THEN TextCount < MaxText ELSE TRUE
    /\ IF idx = 0 THEN k \in 0..Len(rest) ELSE k = 0
    /\ IF idx = 1 /\ 1 \in DOMAIN tool_call_accumulator
       THEN Len(tool_call_accumulator[1].arguments) < MaxOther
       ELSE TRUE
    /\ rest' = IF idx = 0 THEN SubSeq(rest, k + 1, Len(rest)) ELSE rest
    /\ tool_call_accumulator' = accu
    /\ IF finish = "tool_calls"
       THEN /\ chunks' = chunks \o out1 \o EmitSlots(accu, DOMAIN accu)
                            \o <<DoneChunk("tool_calls")>>
            /\ ppc' = "closed"
       ELSE IF finish = "stop"
       THEN /\ chunks' = chunks \o out1 \o <<DoneChunk("stop")>>
            /\ ppc' = "closed"
       ELSE /\ chunks' = chunks \o out1
            /\ ppc' = "reading"
    /\ UNCHANGED text
    /\ UNCHANGED <<agentVars, cacheVars, storeVars, taskVars, threadVars, turnVars, requestVars>>

\* the "data: [DONE]" line, llm_client.py 235-237
DONEWithoutBreak ==
    /\ ppc = "reading"
    /\ Len(chunks) < MaxLen
    /\ chunks' = Append(chunks, DoneChunk(""))
    /\ ppc' = "reading"
    /\ UNCHANGED <<text, rest, tool_call_accumulator>>
    /\ UNCHANGED <<agentVars, cacheVars, storeVars, taskVars, threadVars, turnVars, requestVars>>
DONE ==
    /\ ppc = "reading"
    /\ chunks' = Append(chunks, DoneChunk(""))
    /\ ppc' = "closed"
    /\ UNCHANGED <<text, rest, tool_call_accumulator>>
    /\ UNCHANGED <<agentVars, cacheVars, storeVars, taskVars, threadVars, turnVars, requestVars>>

\* the line stream ends, llm_client.py 229
END_OF_STREAM ==
    /\ ppc = "reading"
    /\ ppc' = "closed"
    /\ UNCHANGED <<text, rest, tool_call_accumulator, chunks>>
    /\ UNCHANGED <<agentVars, cacheVars, storeVars, taskVars, threadVars, turnVars, requestVars>>

ParserNext ==
    \/ \E content \in BOOLEAN, idx \in {-1, 0, 1}, k \in 0..MaxLen,
          id \in {"", "call_1"}, finish \in {"", "tool_calls", "stop"} :
          LINE(content, idx, k, id, finish)
    \/ DONE
    \/ END_OF_STREAM

----------------------------------------------------------------------------
(* db.py: the conversation store, and the two halves of a request to       *)
(* /api/chat/stream in main.py: chat_stream_endpoint, which loads the      *)
(* history, and generate_chat_sse_events, which persists the user message  *)
(* when the response starts streaming and the assistant message when the   *)
(* agent reports complete.  The content of a message is a list of text     *)
(* fragments (the empty list is the empty string).                         *)

Cid(kind, n) == <<kind, n>>
NoCid        == Cid("none", 0)     \* conversation_id absent from the request
ExistingCid  == Cid("c", 1)        \* a conversation created by an earlier turn
NewCid(r)    == Cid("new", r)      \* db.py 59: a fresh uuid4

Row(cid, role, content, a2ui, created_at, by) ==
    [cid |-> cid, role |-> role, content |-> content, a2ui |-> a2ui,
     created_at |-> created_at, by |-> by]

\* db.py 85-109: add_message appends one row stamped with _utc_now()
AddMessage(rws, cid, role, content, a2ui, by) ==
    Append(rws, Row(cid, role, content, a2ui, dbclock, by))

RowIdx(rws, cid) == {i \in 1..Len(rws) : rws[i].cid = cid}

\* db.py 146-150: SELECT ... WHERE conversation_id = ? ORDER BY created_at ASC.
\* Every order of the rows that is ascending in created_at is a result the
\* query may return; rows with equal created_at come in any order.
RECURSIVE Orderings(_, _)
Orderings(rws, S) ==
    IF S = {} THEN {<<>>}
    ELSE UNION {{<<rws[i]>> \o t : t \in Orderings(rws, S \ {i})} :
                   i \in {j \in S : \A k \in S : rws[j].created_at <= rws[k].created_at}}

\* the same rows in the order add_message appended them
RECURSIVE InAppendOrder(_, _)
InAppendOrder(rws, S) ==
    IF S = {} THEN <<>>
    ELSE LET i == CHOOSE j \in S : \A k \in S : j <= k IN
         <<rws[i]>> \o InAppendOrder(rws, S \ {i})

\* main.py 601-610: the history built from the loaded messages
HistoryOf(loaded) ==
    [i \in 1..Len(loaded) |-> [role |-> loaded[i].role, content |-> loaded[i].content]]

Req(pc, conversation_id, cid, loaded, seen, history, out, dbfault, texts, uis) ==
    [pc |-> pc, conversation_id |-> conversation_id, cid |-> cid, loaded |-> loaded,
     seen |-> seen, history |-> history, out |-> out, dbfault |-> dbfault,
     texts |-> texts, uis |-> uis]

NewReq == Req("new", NoCid, NoCid, <<>>, <<>>, <<>>, <<>>, FALSE, <<>>, <<>>)

StoreInit ==
    /\ rows = <<>>
    /\ convs = {ExistingCid}
    /\ dbclock = 0
    /\ reqs = [r \in 1..MaxReqs |-> NewReq]

\* time passes between two calls of _utc_now()
DB_TICK ==
    /\ dbclock < MaxDbTicks
    /\ dbclock' = dbclock + 1
    /\ UNCHANGED <<rows, convs, reqs>>
    /\ UNCHANGED <<agentVars, cacheVars, parserVars, taskVars, threadVars, turnVars, requestVars>>

\* main.py 585-625: chat_stream_endpoint.  conversation_id is the id the
\* request carries; loaded is what get_conversation_with_messages returns.
ENDPOINT(r, conversation_id, loaded) ==
    /\ reqs[r].pc = "new"
    /\ loaded \in (IF conversation_id = NoCid THEN {<<>>}
                    ELSE Orderings(rows, RowIdx(rows, conversation_id)))
    /\ reqs' = [reqs EXCEPT ![r] =
                   Req("loaded", conversation_id, conversation_id, loaded,
                       InAppendOrder(rows, RowIdx(rows, conversation_id)),
                       HistoryOf(loaded), <<>>, FALSE, <<>>, <<>>)]
    /\ UNCHANGED <<rows, convs, dbclock>>
    /\ UNCHANGED <<agentVars, cacheVars, parserVars, taskVars, threadVars, turnVars, requestVars>>

DbWrites == {"ok", "fails_first", "fails_second"}

\* main.py 464-480: the generator starts.  dbw tells which of its two
\* database writes raises (sqlite3.OperationalError), if any; the writes are
\* outside the try of line 485, so the exception leaves the generator before
\* it has yielded an event.
BEGIN(r, dbw) ==
    LET q      == reqs[r]
        fresh  == q.conversation_id = NoCid
        cid    == IF fresh THEN NewCid(r) ELSE q.conversation_id
        \* create_conversation (fresh) or add_message went through
        first  == dbw # "fails_first"
        \* add_message (fresh) or update_conversation_updated_at went through
        second == dbw = "ok"
        added  == IF fresh THEN second ELSE first
    IN
    /\ q.pc = "loaded"
    /\ convs' = IF fresh /\ first THEN convs \cup {cid} ELSE convs
    /\ rows' = IF added THEN AddMessage(rows, cid, "user", <<"u">>, <<>>, r) ELSE rows
    /\ reqs' = [reqs EXCEPT ![r] =
                   [q EXCEPT !.pc = IF dbw = "ok" THEN "streaming" ELSE "crashed",
                             !.cid = IF fresh /\ ~first THEN NoCid ELSE cid,
                             !.dbfault = dbw # "ok"]]
    /\ UNCHANGED dbclock
    /\ UNCHANGED <<agentVars, cacheVars, parserVars, taskVars, threadVars, turnVars, requestVars>>

\* main.py 482: accumulated_text starts empty and no branch of the event
\* loop appends the text fragments it forwards
AccumulatedText(fragments) == <<>>
\* main.py 567: "".join(accumulated_text)
FullText(acc) == FlatMap(LAMBDA f : <<f>>, acc)

\* main.py 485-582: the agent's events are forwarded and the turn ends.
\* last is the terminal event of stream_chat_agent; on "complete" the
\* assistant message is persisted before the complete event is yielded
\* (559-576), and an exception of that write is turned into an error event
\* by the except of 578-582.
\* graph.py 310-315: the complete event carries the a2ui_messages entry of
\* the chat node's output, which the text branch of chat_node (nodes.py
\* 424-431) does not return: the default [] is sent, whatever the tools made
CompleteA2ui(produced) == <<>>

\* ui: the turn's tool calls produced a UI-render message, which was
\* streamed as an a2ui event (main.py 535-547) before the final answer.
FINISH(r, last, ui, dbw) ==
    LET q        == reqs[r]
        texts    == <<"a">>
        produced == IF ui THEN <<"m">> ELSE <<>>
        sent     == IF ui THEN <<"status", "a2ui", "status", "text">>
                    ELSE <<"status", "text">>
        full     == FullText(AccumulatedText(texts))
        snapshot == CompleteA2ui(produced)
    IN
    /\ q.pc = "streaming"
    /\ dbw \in {"ok", "fails_first"}
    /\ IF last = "error"
       THEN /\ dbw = "ok"
            /\ rows' = rows
            /\ ~ui
            /\ reqs' = [reqs EXCEPT ![r] =
                           [q EXCEPT !.pc = "done", !.out = <<"status", "error">>]]
       ELSE IF dbw = "ok"
       THEN /\ rows' = AddMessage(rows, q.cid, "assistant", full, snapshot, r)
            /\ reqs' = [reqs EXCEPT ![r] =
                           [q EXCEPT !.pc = "done",
                                     !.out = sent \o <<"complete">>,
                                     !.texts = texts, !.uis = produced]]
       ELSE /\ rows' = rows
            /\ reqs' = [reqs EXCEPT ![r] =
                           [q EXCEPT !.pc = "done",
                                     !.out = sent \o <<"error">>,
                                     !.texts = texts, !.uis = produced,
                                     !.dbfault = TRUE]]
    /\ UNCHANGED <<convs, dbclock>>
    /\ UNCHANGED <<agentVars, cacheVars, parserVars, taskVars, threadVars, turnVars, requestVars>>

StoreNext ==
    \/ DB_TICK
    \/ \E r \in 1..MaxReqs, conversation_id \in {NoCid, ExistingCid} :
          \E loaded \in Orderings(rows, RowIdx(rows, conversation_id)) :
              ENDPOINT(r, conversation_id, loaded)
    \/ \E r \in 1..MaxReqs, dbw \in DbWrites : BEGIN(r, dbw)
    \/ \E r \in 1..MaxReqs, last \in {"complete", "error"}, ui \in BOOLEAN,
          dbw \in DbWrites : FINISH(r, last, ui, dbw)

----------------------------------------------------------------------------
(* The task that serves one turn, seen at the points where it is          *)
(* suspended: awaiting chat_completion (nodes.py 373), awaiting the        *)
(* executor inside execute_tool (nodes.py 476, tools.py 1415-1427), and    *)
(* handing events to the consumer (the yields of graph.py 286-315 and      *)
(* main.py 487-576).  When the consumer disconnects the server cancels the *)
(* task: CancelledError is raised at the point where the task is           *)
(* suspended.  It is not an Exception, so none of the handlers             *)
(* (nodes.py 433, 477, 554; main.py 578) catches it, and nothing in the    *)
(* task shields the call in flight.                                        *)

NoCall == ""
TaskTools == {"get_rent_forecast", "search_location"}
Batches == UNION {[1..n -> TaskTools] : n \in 1..MaxBatch}

Task(pc, batch, cancelled, inflight, llm_started, tools_started) ==
    [pc |-> pc, batch |-> batch, cancelled |-> cancelled, inflight |-> inflight,
     llm_started |-> llm_started, tools_started |-> tools_started]

TaskInit == task = Task("start", <<>>, FALSE, NoCall, 0, 0)

\* tools.py 1409-1412: the leading calls of the batch that the cache answers
\* return without suspending; what is left starts with the first miss
RECURSIVE ServeHits(_, _)
ServeHits(st, batch) ==
    IF batch = <<>> THEN <<>>
    ELSE IF GetVal(st, CacheKey(Head(batch), "full"), now) # NoVal
         THEN ServeHits(st, Tail(batch))
         ELSE batch

\* the number of execute_tool calls started on the way from batch to left
Started(batch, left) == Len(batch) - Len(left) + (IF left = <<>> THEN 0 ELSE 1)

\* nodes.py 463-481: the loop runs on until a call has to wait for its executor
RunBatch(st, batch) ==
    LET left == ServeHits(st, batch) IN
    [task EXCEPT !.pc = IF left = <<>> THEN "yield_tools" ELSE "tool",
                 !.batch = left,
                 !.inflight = IF left = <<>> THEN NoCall ELSE Head(left),
                 !.tools_started = @ + Started(batch, left)]

\* nodes.py 373-379: chat_node calls the model
CALL_MODEL ==
    /\ task.pc \in {"start", "yield_tools"}
    /\ task.llm_started <= MaxRounds
    /\ task' = [task EXCEPT !.pc = "llm", !.llm_started = @ + 1]
    /\ UNCHANGED <<agentVars, cacheVars, parserVars, storeVars, threadVars, turnVars, requestVars>>

\* nodes.py 386-431: the model answers with a batch of tool calls (the
\* node's events are handed to the consumer) or with text (the turn is done)
MODEL_RETURNS(batch) ==
    /\ task.pc = "llm"
    /\ task' = IF batch = <<>> THEN [task EXCEPT !.pc = "done"]
               ELSE [task EXCEPT !.pc = "yield_chat", !.batch = batch]
    /\ UNCHANGED <<agentVars, cacheVars, parserVars, storeVars, threadVars, turnVars, requestVars>>

\* nodes.py 441-481: tool_executor_node starts on the batch
START_TOOLS ==
    /\ task.pc = "yield_chat"
    /\ task' = RunBatch(store, task.batch)
    /\ UNCHANGED <<agentVars, cacheVars, parserVars, storeVars, threadVars, turnVars, requestVars>>

\* tools.py 1415-1430: the executor of the call in flight returns, the
\* result is cached and the loop goes on
TOOL_RETURNS ==
    LET key == CacheKey(task.inflight, "full")
        st1 == SetStore(store, key, ExecutorResult(task.inflight, TRUE, 1),
                        DEFAULT_TTL_SECONDS, now)
    IN
    /\ task.pc = "tool"
    /\ store' = st1
    /\ disk' = SaveToDisk(st1, disk, "ok")
    /\ task' = RunBatch(st1, Tail(task.batch))
    /\ UNCHANGED <<now, wseq, written, last_get, calls, boots>>
    /\ UNCHANGED <<agentVars, parserVars, storeVars, threadVars, turnVars, requestVars>>

\* the consumer disconnects and the task is cancelled where it is suspended
DISCONNECT ==
    /\ task.pc \in {"llm", "tool", "yield_chat", "yield_tools"}
    /\ task' = [task EXCEPT !.pc = "cancelled", !.cancelled = TRUE]
    /\ UNCHANGED <<agentVars, cacheVars, parserVars, storeVars, threadVars, turnVars, requestVars>>

TaskNext ==
    \/ CALL_MODEL
    \/ \E batch \in Batches \cup {<<>>} : MODEL_RETURNS(batch)
    \/ START_TOOLS
    \/ TOOL_RETURNS
    \/ DISCONNECT

----------------------------------------------------------------------------
(* cache.py 85-94 and 45-53 under several threads.  set_ holds _lock while *)
(* it updates _store, releases it, and _save_to_disk takes the lock again  *)
(* only for its snapshot of the store; the file is written outside the     *)
(* lock.  The three parts are the steps of a thread.                       *)

Thread(pc, key, data) == [pc |-> pc, key |-> key, data |-> data]

ThreadInit == thr = [t \in 1..MaxThreads |-> Thread("idle", <<"", "", "">>, EmptyMap)]

\* cache.py 87-93: the part of set_ under the lock
SET_LOCKED(t, key) ==
    /\ thr[t].pc = "idle"
    /\ wseq < MaxWrites
    /\ wseq' = wseq + 1
    /\ store' = SetStore(store, key, Val(TRUE, "none", FALSE, wseq + 1),
                         DEFAULT_TTL_SECONDS, now)
    /\ thr' = [thr EXCEPT ![t] = Thread("stored", key, EmptyMap)]
    /\ UNCHANGED <<disk, now, written, last_get, calls, boots>>
    /\ UNCHANGED <<agentVars, parserVars, storeVars, taskVars, turnVars, requestVars>>

\* cache.py 47-48: the snapshot of _save_to_disk, under the lock
SNAPSHOT(t) ==
    /\ thr[t].pc = "stored"
    /\ thr' = [thr EXCEPT ![t] = Thread("snapshotted", thr[t].key, store)]
    /\ UNCHANGED <<agentVars, cacheVars, parserVars, storeVars, taskVars, turnVars, requestVars>>

\* cache.py 49-51: the snapshot is written over the file, outside the lock
WRITE_FILE(t) ==
    /\ thr[t].pc = "snapshotted"
    /\ disk' = SaveToDisk(thr[t].data, disk, "ok")
    /\ thr' = [thr EXCEPT ![t] = Thread("done", thr[t].key, thr[t].data)]
    /\ UNCHANGED <<store, now, wseq, written, last_get, calls, boots>>
    /\ UNCHANGED <<agentVars, parserVars, storeVars, taskVars, turnVars, requestVars>>

\* set_ has returned and the thread is free for its next call
RETURN(t) ==
    /\ thr[t].pc = "done"
    /\ thr' = [thr EXCEPT ![t] = Thread("idle", thr[t].key, EmptyMap)]
    /\ UNCHANGED <<agentVars, cacheVars, parserVars, storeVars, taskVars, turnVars, requestVars>>

ThreadNext ==
    \/ \E t \in 1..MaxThreads, key \in ApiKeys : SET_LOCKED(t, key)
    \/ \E t \in 1..MaxThreads : SNAPSHOT(t)
    \/ \E t \in 1..MaxThreads : WRITE_FILE(t)
    \/ \E t \in 1..MaxThreads : RETURN(t)

----------------------------------------------------------------------------
(* nodes.py 463-540: the loop of tool_executor_node over its batch, for    *)
(* several turns that the event loop serves at the same time.  Each turn   *)
(* has its own state; a turn gives way to the others only while it awaits  *)
(* execute_tool.  log records, per turn, the calls it started and the      *)
(* calls it saw end.                                                       *)

Turn(pc, n, log) == [pc |-> pc, n |-> n, log |-> log]
LogEv(ev, call, ok) == [ev |-> ev, call |-> call, ok |-> ok]

TurnsIdle == turns = [t \in 1..MaxTurns |-> Turn("returned", 0, <<>>)]
\* nodes.py 449, 463: the node is entered with a batch of n pending calls
TurnsInit == turns \in [1..MaxTurns -> {Turn("loop", n, <<>>) : n \in 1..MaxBatch}]

StartedCalls(log) == Cardinality({i \in 1..Len(log) : log[i].ev = "start"})

\* nodes.py 463-476: the loop takes the next call of the batch and awaits
\* execute_tool
EXECUTE_CALLWithoutAwait(t) ==
    /\ turns[t].pc \in {"loop", "awaiting"}
    /\ StartedCalls(turns[t].log) < turns[t].n
    /\ turns' = [turns EXCEPT ![t].pc = "awaiting",
                              ![t].log = Append(@, LogEv("start", StartedCalls(@) + 1, TRUE))]
    /\ UNCHANGED <<agentVars, cacheVars, parserVars, storeVars, taskVars, threadVars, requestVars>>
EXECUTE_CALL(t) ==
    /\ turns[t].pc = "loop"
    /\ StartedCalls(turns[t].log) < turns[t].n
    /\ turns' = [turns EXCEPT ![t].pc = "awaiting",
                              ![t].log = Append(@, LogEv("start", StartedCalls(@) + 1, TRUE))]
    /\ UNCHANGED <<agentVars, cacheVars, parserVars, storeVars, taskVars, threadVars, requestVars>>

\* nodes.py 476-540: execute_tool returned (ok) or raised (~ok); the tool
\* message and tool_end are appended and the loop goes on
CALL_RETURNS(t, ok) ==
    /\ turns[t].pc = "awaiting"
    /\ turns' = [turns EXCEPT ![t].pc = "loop",
                              ![t].log = Append(@, LogEv("end", StartedCalls(@), ok))]
    /\ UNCHANGED <<agentVars, cacheVars, parserVars, storeVars, taskVars, threadVars, requestVars>>

\* nodes.py 544-552: the batch is done and the node returns
NODE_RETURNS(t) ==
    /\ turns[t].pc = "loop"
    /\ StartedCalls(turns[t].log) = turns[t].n
    /\ turns' = [turns EXCEPT ![t].pc = "returned"]
    /\ UNCHANGED <<agentVars, cacheVars, parserVars, storeVars, taskVars, threadVars, requestVars>>

TurnsNext ==
    \/ \E t \in 1..MaxTurns : EXECUTE_CALL(t)
    \/ \E t \in 1..MaxTurns, ok \in BOOLEAN : CALL_RETURNS(t, ok)
    \/ \E t \in 1..MaxTurns : NODE_RETURNS(t)

----------------------------------------------------------------------------
(* scansan_client.py 53-104: ScanSanClient._request.  One step per HTTP    *)
(* attempt; outs is the list of what the attempts of the call in progress  *)
(* ended in.                                                               *)

Rq(pc, key, retries, caching, outs, result, n) ==
    [pc |-> pc, key |-> key, retries |-> retries, caching |-> caching,
     outs |-> outs, result |-> result, n |-> n]

RequestIdle == rq = Rq("idle", <<"", "", "">>, 0, FALSE, <<>>, "none_yet", 0)

\* what one attempt ends in: a 2xx response with a JSON body, a 429, another
\* error status (raise_for_status, line 85), a transport error
\* (httpx.RequestError), a 2xx response whose body is not JSON
AttemptOutcomes == {"ok", "429", "http_error", "transport_error", "bad_body"}

\* scansan_client.py 92-101: the handlers that let the loop go on
RetryAfterAnyError(outcome) == outcome \in {"429", "http_error", "transport_error"}
RetryAfter(outcome) == outcome \in {"429", "transport_error"}

\* the value a successful attempt of call n hands to the cache
ResponseData(n) == Val(TRUE, "none", FALSE, n)

\* scansan_client.py 60-77: the call up to the loop.  use_api: line 33;
\* enable_cache: settings.enable_cache, line 68.
REQUEST(key, retries, use_api, enable_cache) ==
    LET hit == use_api /\ enable_cache /\ GetVal(store, key, now) # NoVal
        new == Rq("loop", key, retries, enable_cache, <<>>, "none_yet", rq.n + 1)
    IN
    /\ rq.pc \in {"idle", "returned"}
    /\ rq.n < MaxRequests
    /\ rq' = IF ~use_api THEN [new EXCEPT !.pc = "returned", !.result = "None"]
             ELSE IF hit THEN [new EXCEPT !.pc = "returned", !.result = "cached"]
             ELSE IF retries = 0 THEN [new EXCEPT !.pc = "returned", !.result = "None"]
             ELSE new
    /\ store' = IF use_api /\ enable_cache THEN GetStore(store, key, now) ELSE store
    /\ UNCHANGED <<disk, now, wseq, written, last_get, calls, boots>>
    /\ UNCHANGED <<agentVars, parserVars, storeVars, taskVars, threadVars, turnVars>>

\* scansan_client.py 79-104: one pass of the loop
ATTEMPT(outcome) ==
    LET outs == Append(rq.outs, outcome)
        st1  == SetStore(store, rq.key, ResponseData(rq.n), DEFAULT_TTL_SECONDS, now)
    IN
    /\ rq.pc = "loop"
    /\ IF outcome = "ok"
       THEN \* lines 85-90
            /\ rq' = [rq EXCEPT !.outs = outs, !.pc = "returned", !.result = "data"]
            /\ store' = IF rq.caching THEN st1 ELSE store
            /\ disk' = IF rq.caching THEN SaveToDisk(st1, disk, "ok") ELSE disk
       ELSE IF outcome = "bad_body"
       THEN \* line 86: response.json() raises ValueError, which no handler takes
            /\ rq' = [rq EXCEPT !.outs = outs, !.pc = "returned", !.result = "raised"]
            /\ UNCHANGED <<store, disk>>
       ELSE IF RetryAfter(outcome) /\ Len(outs) < rq.retries
       THEN \* lines 94-96, 99-101: sleep, next pass
            /\ rq' = [rq EXCEPT !.outs = outs]
            /\ UNCHANGED <<store, disk>>
       ELSE \* lines 97-98 (break) or the last pass: lines 103-104
            /\ rq' = [rq EXCEPT !.outs = outs, !.pc = "returned", !.result = "None"]
            /\ UNCHANGED <<store, disk>>
    /\ UNCHANGED <<now, wseq, written, last_get, calls, boots>>
    /\ UNCHANGED <<agentVars, parserVars, storeVars, taskVars, threadVars, turnVars>>

RequestNext ==
    \/ \E key \in ApiKeys, retries \in 0..MaxRetries, use_api \in BOOLEAN,
          enable_cache \in BOOLEAN : REQUEST(key, retries, use_api, enable_cache)
    \/ \E outcome \in AttemptOutcomes : ATTEMPT(outcome)

----------------------------------------------------------------------------
(* The turn: graph.py 260-285.  The history handed to stream_chat_agent    *)
(* is either empty or starts with a system message; the user message is    *)
(* appended and the graph is entered at "chat".                            *)

Histories == {<<>>, <<SystemMsg>>, <<UserMsg, AssistantMsg(<<>>)>>}

AgentInit ==
    /\ messages \in {h \o <<UserMsg>> : h \in Histories}
    /\ pending_tool_calls = <<>>
    /\ a2ui_messages = <<>>
    /\ stream_output = <<>>
    /\ error = None
    /\ status = "thinking"
    /\ should_continue = TRUE
    /\ node = "chat"
    /\ events = <<>>
    /\ sse = <<>>
    /\ rounds = 0
    /\ llm_calls = 0
    /\ tool_runs = 0
    /\ next_id = 1
    /\ last_batch = <<>>
    /\ last_outcomes = <<>>
    /\ last_node = ""
    /\ last_resp = ""

ParserIdle ==
    /\ text = <<>>
    /\ rest = <<>>
    /\ tool_call_accumulator = EmptyMap
    /\ chunks = <<>>
    /\ ppc = "closed"

Init == AgentInit /\ CacheInit /\ ParserIdle /\ StoreInit /\ TaskInit /\ ThreadInit /\ TurnsIdle /\ RequestIdle

Next ==
    \/ \E resp \in Responses : CHAT(resp)
    \/ \E outs \in [1..Len(pending_tool_calls) -> Outcomes] : TOOL_EXECUTOR(outs)

Spec == Init /\ [][Next]_vars

\* the turn at rest, for the specifications that do not run it
AgentIdle ==
    /\ messages = <<>>
    /\ pending_tool_calls = <<>>
    /\ a2ui_messages = <<>>
    /\ stream_output = <<>>
    /\ error = None
    /\ status = "idle"
    /\ should_continue = FALSE
    /\ node = "END"
    /\ events = <<>>
    /\ sse = <<>>
    /\ rounds = 0
    /\ llm_calls = 0
    /\ tool_runs = 0
    /\ next_id = 1
    /\ last_batch = <<>>
    /\ last_outcomes = <<>>
    /\ last_node = ""
    /\ last_resp = ""

CacheSpecInit  == CacheInit /\ AgentIdle /\ ParserIdle /\ StoreInit /\ TaskInit /\ ThreadInit /\ TurnsIdle /\ RequestIdle
ParserSpecInit == ParserInit /\ AgentIdle /\ CacheInit /\ StoreInit /\ TaskInit /\ ThreadInit /\ TurnsIdle /\ RequestIdle
StoreSpecInit  == StoreInit /\ AgentIdle /\ CacheInit /\ ParserIdle /\ TaskInit /\ ThreadInit /\ TurnsIdle /\ RequestIdle
TaskSpecInit   == TaskInit /\ AgentIdle /\ CacheInit /\ ParserIdle /\ StoreInit /\ ThreadInit /\ TurnsIdle /\ RequestIdle
ThreadSpecInit == ThreadInit /\ AgentIdle /\ CacheInit /\ ParserIdle /\ StoreInit /\ TaskInit /\ TurnsIdle /\ RequestIdle

CacheSpec    == CacheSpecInit /\ [][CacheNext]_vars
DispatchSpec == CacheSpecInit /\ [][DispatchNext]_vars
FaultSpec    == CacheSpecInit /\ [][FaultNext]_vars
ParserSpec   == ParserSpecInit /\ [][ParserNext]_vars
StoreSpec    == StoreSpecInit /\ [][StoreNext]_vars
TaskSpec     == TaskSpecInit /\ [][TaskNext]_vars
ThreadSpec   == ThreadSpecInit /\ [][ThreadNext]_vars

TurnsSpecInit ==
    /\ TurnsInit
    /\ AgentIdle /\ CacheInit /\ ParserIdle /\ StoreInit /\ TaskInit /\ ThreadInit
    /\ RequestIdle
TurnsSpec == TurnsSpecInit /\ [][TurnsNext]_vars

RequestSpecInit ==
    /\ RequestIdle
    /\ AgentIdle /\ CacheInit /\ ParserIdle /\ StoreInit /\ TaskInit /\ ThreadInit
    /\ TurnsIdle
RequestSpec == RequestSpecInit /\ [][RequestNext]_vars

\* llm_client.py 229: the body of an HTTP response is finite (the client's
\* 60 s timeout, llm_client.py 100, ends a read that stalls), so the line
\* iterator is exhausted unless the parser stopped before
ParserLiveSpec == ParserSpecInit /\ [][ParserNext]_vars /\ WF_vars(END_OF_STREAM)

----------------------------------------------------------------------------
(* Properties of the turn (specification Spec) *)

HasCalls(m) == m.role = "assistant" /\ Len(m.tool_calls) >= 1

Paired(msgs) ==
    \A i \in 1..Len(msgs) :
        HasCalls(msgs[i]) =>
            LET n == Len(msgs[i].tool_calls) IN
            /\ i + n <= Len(msgs)
            /\ \A j \in 1..n :
                  /\ msgs[i + j].role = "tool"
                  /\ msgs[i + j].tool_call_id = msgs[i].tool_calls[j].id
            /\ (i + n + 1 <= Len(msgs) => msgs[i + n + 1].role # "tool")

\* C1: whenever tool_executor_node has completed (and in the answered turn
\* that follows), every assistant message with N >= 1 tool calls is followed
\* at once by exactly N tool messages carrying the N requested ids in
\* request order, for any number of tool rounds.
C1_Pairing ==
    (status = "tools_executed" \/ (status = "complete" /\ error = None))
        => Paired(messages)

C1_Witness ==
    /\ status = "tools_executed"
    /\ rounds = 2
    /\ \E i \in 1..Len(messages) :
          HasCalls(messages[i]) /\ Len(messages[i].tool_calls) = 2

Raised(outs) == \E i \in DOMAIN outs : outs[i] = "raise"

\* C2: when an executor raises inside a batch (and the node body itself does
\* not fail), the node still completes: the raising call gets a tool message
\* and a tool_end event with success=false, every call of the batch ran and
\* got its tool message, and control is handed back to the chat node with no
\* error set.
C2_ToolFaultContained ==
    (last_node = "tool_executor" /\ Raised(last_outcomes)
        /\ \A i \in DOMAIN last_outcomes : last_outcomes[i] # "fault")
    => /\ status = "tools_executed"
       /\ error = None
       /\ should_continue
       /\ node = "chat"
       /\ \A i \in DOMAIN last_batch :
             LET c  == last_batch[i].id
                 ok == last_outcomes[i] \in {"ok_ui", "ok"} IN
             /\ \E k \in 1..Len(messages) :
                   /\ messages[k].role = "tool"
                   /\ messages[k].tool_call_id = c
                   /\ messages[k].success = ok
             /\ \E k \in 1..Len(sse) : sse[k] = Sse("tool_start", c, TRUE, NoMsg)
             /\ \E k \in 1..Len(sse) : sse[k] = Sse("tool_end", c, ok, NoMsg)

\* the turn reaches complete after a batch in which an executor raised
C2_Witness ==
    /\ status = "complete"
    /\ error = None
    /\ Len(last_outcomes) = 2
    /\ last_outcomes[1] = "raise"
    /\ sse[Len(sse)].event = "complete"

\* The maximum number of round trips the spec asks to be configured (4.3);
\* the code configures none.
LoopLimit == 1

\* C3: the number of chat -> tool_executor -> chat round trips of a turn
\* never exceeds the configured maximum.
C3_BoundedLoop == rounds <= LoopLimit

Terminal(e) == e.event \in {"complete", "error"}

\* C4: the outward event sequence holds at most one terminal event, nothing
\* follows it, and a finished turn ends with one.
C4_SingleTerminal ==
    /\ \A i \in 1..Len(sse) : Terminal(sse[i]) => i = Len(sse)
    /\ node = "END" => (sse # <<>> /\ Terminal(sse[Len(sse)]))

Count(s, P(_)) == Cardinality({i \in 1..Len(s) : P(s[i])})
IsError(e)    == e.event = "error"
IsComplete(e) == e.event = "complete"

\* C5: once the language-model call has failed in chat_node the turn is over:
\* the error is recorded, the graph ends, and the stream carries a single
\* error event and no complete event.
C5_UpstreamFault ==
    (last_node = "chat" /\ status = "error")
    => /\ error # None
       /\ node = "END"
       /\ Count(sse, IsError) = 1
       /\ Count(sse, IsComplete) = 0

\* C5, frame part: the failing chat_node run appends no message.
C5_NoAppend ==
    [][(last_node' = "chat" /\ status' = "error" /\ llm_calls' = llm_calls + 1)
         => messages' = messages]_vars

InBlock(s, i, j) ==
    /\ i < j
    /\ s[i].event = "tool_start"
    /\ s[j].event = "tool_end"
    /\ s[i].call = s[j].call
    /\ \A k \in (i + 1)..(j - 1) : s[k].event = "a2ui" /\ s[k].call = s[i].call

----------------------------------------------------------------------------
(* Properties of the dispatcher and the cache *)

InWindow(first, second) == second.t <= first.t + DEFAULT_TTL_SECONDS

\* C6: of two execute_tool calls with the same name and arguments inside the
\* TTL window, at most one invokes the executor, and the second returns a
\* result identical to the first.
C6_Idempotent ==
    \A i \in 1..Len(calls) : \A j \in 1..Len(calls) :
        (i < j /\ calls[i].key = calls[j].key /\ InWindow(calls[i], calls[j]))
        => /\ ~(calls[i].ran /\ calls[j].ran)
           /\ calls[j].result = calls[i].result

\* C7: a value that get hands out was stored by a set_ at a time t with a
\* TTL such that the read is not later than t + TTL; this holds for reads
\* from the in-memory store and after the store was reloaded from the file.
C7_TTLExpiry ==
    last_get.val # NoVal =>
        /\ last_get.val.run \in 1..Len(written)
        /\ last_get.t <= written[last_get.val.run].t + written[last_get.val.run].ttl

\* a read after the expiry of an entry that the file still holds, in a
\* restarted process, is a miss
C7_Witness ==
    /\ boots >= 1
    /\ last_get.val = NoVal
    /\ last_get.t = now
    /\ disk.state = "ok"
    /\ last_get.key \in DOMAIN disk.data
    /\ last_get.t > disk.data[last_get.key].e
    /\ \E r \in 1..Len(written) :
          /\ written[r].key = last_get.key
          /\ last_get.t > written[r].t + written[r].ttl

\* the last set_ that stored a value under the key of write r is r itself
Latest(r) ==
    /\ written[r].key \in Keys
    /\ \A q \in (r + 1)..Len(written) : written[q].key # written[r].key

\* C8: right after a restart, get(k) returns the value v of the last
\* set_(k, v) that returned, as long as that entry has not expired.
C8_Durable ==
    [][boots' = boots + 1 =>
         \A r \in 1..Len(written) :
             (Latest(r) /\ now <= written[r].t + written[r].ttl)
             => GetVal(store', written[r].key, now) = written[r].val]_vars

----------------------------------------------------------------------------
(* Properties of the streaming parser (specification ParserSpec) *)

\* C10: once every piece of the argument text of slot 0 was delivered, the
\* tool call emitted for slot 0 carries the arguments parsed from the
\* unsplit text, however the text was cut and whatever was delivered to
\* slot 1 in between.
C10_Reconstruction ==
    \A i \in 1..Len(chunks) :
        (chunks[i].type = "tool_call" /\ chunks[i].index = 0 /\ rest = <<>>)
        => chunks[i].arguments = ParseArgs(text)

\* a decodable text delivered in pieces, with slot 1 in between
C10_Witness ==
    /\ Len(text) = 3
    /\ WellFormed(text)
    /\ rest = <<>>
    /\ \E i \in 1..Len(chunks) :
          /\ chunks[i].type = "tool_call"
          /\ chunks[i].index = 0
          /\ chunks[i].arguments = {text[2]}
    /\ \E i \in 1..Len(chunks) : chunks[i].type = "tool_call" /\ chunks[i].index = 1

ToolCallChunks == {i \in 1..Len(chunks) : chunks[i].type = "tool_call"}
DoneChunks     == {i \in 1..Len(chunks) : chunks[i].type = "done"}

\* C23: no tool_call chunk is emitted while the stream has not reported
\* finish_reason tool_calls; when it does, every accumulated slot is emitted
\* exactly once, in ascending index order, directly followed by done; a run
\* that ends on finish_reason stop, on [DONE] or on the end of the line
\* stream holds no tool_call chunk.
C23_EmissionOrder ==
    LET n == Len(chunks) IN
    /\ ppc = "reading" => ToolCallChunks = {}
    /\ (ppc = "closed" /\ (n = 0 \/ chunks[n] # DoneChunk("tool_calls")))
           => ToolCallChunks = {}
    /\ (ppc = "closed" /\ n > 0 /\ chunks[n] = DoneChunk("tool_calls"))
           => /\ ToolCallChunks = (n - Cardinality(DOMAIN tool_call_accumulator))..(n - 1)
              /\ \A idx \in DOMAIN tool_call_accumulator :
                     Cardinality({i \in ToolCallChunks : chunks[i].index = idx}) = 1
              /\ \A i \in ToolCallChunks : \A j \in ToolCallChunks :
                     i < j => chunks[i].index < chunks[j].index

\* text, then both slots emitted on finish_reason tool_calls
C23_Witness ==
    /\ ppc = "closed"
    /\ Len(chunks) = 4
    /\ chunks[1].type = "text"
    /\ chunks[2].type = "tool_call" /\ chunks[2].index = 0
    /\ chunks[3].type = "tool_call" /\ chunks[3].index = 1
    /\ chunks[4] = DoneChunk("tool_calls")

\* C24: every run of the parser ends; at most one done chunk is emitted and
\* it is the last chunk of the run; a line stream that ends without a
\* completion signal ends the run with the chunks already forwarded; once
\* the run has ended no chunk follows.
C24_Termination ==
    /\ <>(ppc = "closed")
    /\ [][/\ Cardinality(DoneChunks') <= 1
          /\ \A i \in DoneChunks' : i = Len(chunks') /\ ppc' = "closed"
          /\ (ppc' = "closed" /\ DoneChunks' = {}) => chunks' = chunks
          /\ ppc = "closed" => (chunks' = chunks /\ ppc' = "closed")]_vars

\* the line stream ended after one text chunk and a tool-call fragment,
\* with no completion signal
C24_Witness ==
    /\ ppc = "closed"
    /\ DoneChunks = {}
    /\ Len(chunks) = 1
    /\ chunks[1].type = "text"
    /\ DOMAIN tool_call_accumulator # {}

----------------------------------------------------------------------------
(* Further properties of the turn (specification Spec) *)

\* C11: a model response whose tool-call argument text cannot be parsed does
\* not end the turn: chat_node sets no error, the call is pending (with empty
\* arguments) and the tool executor runs next.
C11_MalformedArgsContained ==
    (last_node = "chat" /\ last_resp = "bad_args")
    => /\ error = None
       /\ status = "tool_calling"
       /\ pending_tool_calls # <<>>
       /\ node = "tool_executor"

----------------------------------------------------------------------------
(* Properties of the conversation store and the chat endpoint              *)
(* (specification StoreSpec)                                               *)

Last(q) == q[Len(q)]

\* C12: a request one of whose database writes failed is still served: its
\* turn runs, and when the agent completes the event stream ends with
\* complete.
C12_PersistenceNonFatal ==
    \A r \in 1..MaxReqs :
        reqs[r].dbfault =>
            /\ reqs[r].pc \in {"streaming", "done"}
            /\ (reqs[r].pc = "done" => Last(reqs[r].out) = "complete")

\* C13: what get_conversation_with_messages returned to a request is the
\* list of the conversation's messages in the order add_message appended
\* them.
C13_LoadOrder ==
    \A r \in 1..MaxReqs : reqs[r].pc # "new" => reqs[r].loaded = reqs[r].seen

UserRowOf(r) == {i \in 1..Len(rows) : rows[i].by = r /\ rows[i].role = "user"}

\* turn a comes before turn b on the same conversation: a's user message
\* was persisted before b's
Precedes(a, b) ==
    /\ a # b
    /\ reqs[a].cid = reqs[b].cid
    /\ reqs[a].cid # NoCid
    /\ \E i \in UserRowOf(a) : \E j \in UserRowOf(b) : i < j

\* C14: for two turns on one conversation, every message the earlier turn
\* persisted is in the history the later turn loaded before it started.
C14_CrossTurnVisibility ==
    \A a \in 1..MaxReqs : \A b \in 1..MaxReqs :
        Precedes(a, b) =>
            \A i \in 1..Len(rows) :
                rows[i].by = a =>
                    \E k \in 1..Len(reqs[b].loaded) : reqs[b].loaded[k] = rows[i]

----------------------------------------------------------------------------
(* Further properties of the dispatcher (specification DispatchSpec) *)

\* C15: the cache holds under a tool key only results whose executor
\* succeeded: a result with success=false, an unknown tool name or a raised
\* exception writes nothing.
C15_SuccessOnly ==
    /\ \A k \in DOMAIN store : k \in ToolKeys => store[k].v.success
    /\ \A i \in 1..Len(written) : written[i].key \in ToolKeys => written[i].val.success

----------------------------------------------------------------------------
(* Properties of the event stream of a turn (specification Spec) *)

Reports(kind, c) == Cardinality({k \in 1..Len(sse) : sse[k].event = kind /\ sse[k].call = c})

\* C16: every tool invocation of the turn (every call that got its tool
\* message) is reported by exactly one tool_start and exactly one tool_end
\* event, whatever the number of tool rounds.
C16_OneReport ==
    \A k \in 1..Len(messages) :
        messages[k].role = "tool" =>
            /\ Reports("tool_start", messages[k].tool_call_id) = 1
            /\ Reports("tool_end", messages[k].tool_call_id) = 1

EventNames(s) == [i \in 1..Len(s) |-> s[i].event]

\* the turn in which the model asked for exactly one tool, the tool
\* succeeded without UI messages, and the model then answered with text
OneToolTurn ==
    /\ status = "complete"
    /\ error = None
    /\ llm_calls = 2
    /\ rounds = 1
    /\ Len(last_batch) = 1
    /\ last_outcomes = <<"ok">>

\* C17: in the one-tool turn the outward events are status, tool_start,
\* tool_end(success=true), status, text, complete, and nothing else.
C17_OneToolScenario ==
    OneToolTurn =>
        /\ EventNames(sse) = <<"status", "tool_start", "tool_end", "status", "text",
                                "complete">>
        /\ \A k \in 1..Len(sse) : sse[k].event = "tool_end" => sse[k].success

CarriedToolCalls(kind) == kind \in {"tools", "bad_args"}

\* C19: after a chat_node run the tool executor runs next exactly when the
\* model response carried a tool call and no error is set; a response
\* without tool calls appends the assistant message, sets status complete
\* and ends the graph without running a tool; after tool_executor_node has
\* resolved a batch no call is pending and the chat node runs next.
C19_LoopRouting ==
    [][/\ llm_calls' = llm_calls + 1 =>
            /\ (node' = "tool_executor") <=> (CarriedToolCalls(last_resp') /\ error' = None)
            /\ last_resp' = "text" =>
                  /\ Len(messages') = Len(WithSystem(messages)) + 1
                  /\ messages'[Len(messages')] = AssistantMsg(<<>>)
                  /\ status' = "complete"
                  /\ node' = "END"
                  /\ tool_runs' = tool_runs
       /\ (tool_runs' # tool_runs /\ status' = "tools_executed") =>
            /\ pending_tool_calls' = <<>>
            /\ node' = "chat"]_vars

\* the model asks for tools while an error is set: the graph ends
C19_Witness ==
    /\ last_node = "chat"
    /\ last_resp = "tools"
    /\ error # None
    /\ pending_tool_calls # <<>>
    /\ node = "END"

\* C20: once tool_executor_node has failed as a whole, no further
\* language-model call is made, the message list stays as it was and no
\* complete event is emitted.
C20_ExecutorFailureEndsTurn ==
    [][error = "Tool execution failed" =>
         /\ llm_calls' = llm_calls
         /\ messages' = messages
         /\ Count(sse', IsComplete) = 0]_vars

----------------------------------------------------------------------------
(* Properties of the turn's task (specification TaskSpec) *)

\* C18: once the task has observed the cancellation it starts no further
\* language-model call and no further tool call, and the tool call that was
\* in flight at that moment is either still running or has its result in
\* the cache.
C18_Cancellation ==
    [][/\ task.cancelled =>
            /\ task'.llm_started = task.llm_started
            /\ task'.tools_started = task.tools_started
       /\ (task'.cancelled /\ task'.inflight # NoCall) =>
            \/ task'.pc = "tool"
            \/ CacheKey(task'.inflight, "full") \in DOMAIN store']_vars

----------------------------------------------------------------------------
(* Further properties of the conversation store (specification StoreSpec) *)

\* C21: the assistant message a completed turn wrote to the store has as
\* content the concatenation, in arrival order, of the turn's text events,
\* and as A2UI snapshot the UI-render messages the turn's tool calls
\* produced.
C21_AssistantRecord ==
    \A i \in 1..Len(rows) :
        rows[i].role = "assistant" =>
            /\ rows[i].content = FullText(reqs[rows[i].by].texts)
            /\ rows[i].a2ui = reqs[rows[i].by].uis

----------------------------------------------------------------------------
(* Properties of concurrent cache writes (specification ThreadSpec) *)

Quiet == \A t \in 1..MaxThreads : thr[t].pc = "idle"

\* C22: when no set_ call is in progress, the cache file holds every entry
\* of the in-memory store.
C22_NoLostWrite ==
    Quiet => \A k \in DOMAIN store :
                 /\ disk.state = "ok"
                 /\ k \in DOMAIN disk.data
                 /\ disk.data[k] = store[k]

----------------------------------------------------------------------------
(* Properties of the message list of a turn (specification Spec) *)

SystemCount(msgs) == Cardinality({i \in 1..Len(msgs) : msgs[i].role = "system"})
OneLeadingSystem(msgs) ==
    /\ msgs # <<>>
    /\ msgs[1].role = "system"
    /\ SystemCount(msgs) = 1
ChatNodeRan == last_node' = "chat" /\ llm_calls' = llm_calls + 1

IsPrefix(a, b) == Len(a) <= Len(b) /\ SubSeq(b, 1, Len(a)) = a

\* C26: once the message list starts with the system message, every step
\* of the turn leaves it as an unchanged prefix of the list that follows:
\* messages are only appended, none is edited, reordered or removed.
C26_AppendOnly ==
    [][(messages # <<>> /\ messages[1].role = "system")
          => IsPrefix(messages, messages')]_vars

\* two tool rounds were appended behind the preamble
C26_Witness ==
    /\ status = "tools_executed"
    /\ rounds = 2
    /\ messages[1] = SystemMsg
    /\ Len(messages) >= 6
    /\ messages[Len(messages)].role = "tool"

----------------------------------------------------------------------------
(* Properties of the tool loop across turns (specification TurnsSpec) *)

Starts(log) == {i \in 1..Len(log) : log[i].ev = "start"}
Ends(log)   == {i \in 1..Len(log) : log[i].ev = "end"}
InFlightCalls(log) ==
    {log[i].call : i \in Starts(log)} \ {log[j].call : j \in Ends(log)}

\* C27: in every turn at most one tool execution is in flight; the calls
\* of the batch start in request order, and each call after the first
\* starts only after the call before it has ended.  (Turns of different
\* conversations are not ordered against each other: C27_Witness.)
C27_Sequential ==
    \A t \in 1..MaxTurns :
        LET log == turns[t].log IN
        /\ Cardinality(InFlightCalls(log)) <= 1
        /\ \A i \in Starts(log) :
              /\ log[i].call = 1 + Cardinality({j \in Starts(log) : j < i})
              /\ log[i].call > 1 =>
                    \E j \in Ends(log) : j < i /\ log[j].call = log[i].call - 1

\* two turns each have a call in flight at the same time; the first turn
\* is at its second call
C27_Witness ==
    /\ turns[1].pc = "awaiting"
    /\ turns[2].pc = "awaiting"
    /\ Len(turns[1].log) = 3
    /\ InFlightCalls(turns[1].log) = {2}
    /\ InFlightCalls(turns[2].log) = {1}

----------------------------------------------------------------------------
(* Properties of ScanSanClient._request (specification RequestSpec) *)

Returned   == rq.pc = "returned" /\ rq.result # "cached"
Succeeded  == \E i \in 1..Len(rq.outs) : rq.outs[i] = "ok"
WroteCache == rq.key \in DOMAIN store /\ store[rq.key].v = Dumps(ResponseData(rq.n))

\* the part of C30 about the attempts: at most `retries` of them; every
\* attempt but the last ended in a 429 or a transport error; a call that
\* returned after such an attempt had used up its attempts; the cache is
\* written only after a successful attempt
AttemptsBounded ==
    /\ Len(rq.outs) <= rq.retries
    /\ \A i \in 1..(Len(rq.outs) - 1) : rq.outs[i] \in {"429", "transport_error"}
    /\ (Returned /\ rq.outs # <<>> /\ rq.outs[Len(rq.outs)] \in {"429", "transport_error"})
          => Len(rq.outs) = rq.retries
    /\ WroteCache => Succeeded

\* C30 as stated: ... and a call of which no attempt succeeded returns None.
C30_NoneUnlessSucceeded ==
    /\ AttemptsBounded
    /\ Returned => (rq.result = "None" <=> ~Succeeded)

\* C30, amended: at most `retries` attempts per call; a retry follows only
\* a 429 or a transport error, any other error status ends the call at
\* once; the cache is written only after a successful attempt; the call
\* returns the data after a successful attempt, raises when a 2xx response
\* has a body that is not JSON, and returns None in every other case.
C30_BoundedRetries ==
    /\ AttemptsBounded
    /\ Returned =>
          LET last == IF rq.outs = <<>> THEN "" ELSE rq.outs[Len(rq.outs)] IN
          /\ rq.result = "data" <=> last = "ok"
          /\ rq.result = "raised" <=> last = "bad_body"
          /\ rq.result = "None" <=> last \notin {"ok", "bad_body"}

\* two retries, then a success that was written to the cache
C30_Witness ==
    /\ rq.pc = "returned"
    /\ rq.retries = 3
    /\ rq.outs = <<"429", "transport_error", "ok">>
    /\ rq.result = "data"
    /\ WroteCache

----------------------------------------------------------------------------
(* Properties of the cache under read faults (specification FaultSpec) *)

Undecodable(st, key) == key \in DOMAIN st /\ ~Expired(st[key], now) /\ st[key].v = Garbage

----------------------------------------------------------------------------
(* Frame of the cache operations (specification CacheSpec) *)

SameElsewhere(st1, st2, key) ==
    /\ DOMAIN st1 \ {key} = DOMAIN st2 \ {key}
    /\ \A k \in DOMAIN st1 \ {key} : st2[k] = st1[k]

\* C29: a get of an expired key removes that entry and changes no other; a
\* get of a live or absent key changes nothing; a set_ overwrites the
\* value and the expiry of its key and changes no other entry; a set_
\* whose value cannot be serialised changes neither the store nor the file.
C29_Frame ==
    [][/\ (now' = now /\ wseq' = wseq /\ boots' = boots) =>
            LET key == last_get'.key IN
            IF key \in DOMAIN store /\ now > store[key].e
            THEN key \notin DOMAIN store' /\ SameElsewhere(store, store', key)
            ELSE store' = store
       /\ wseq' = wseq + 1 =>
            LET w == written'[Len(written')] IN
            IF w.val.stamp = "circular"
            THEN store' = store /\ disk' = disk
            ELSE /\ w.key \in DOMAIN store'
                 /\ store'[w.key].v = Dumps(w.val)
                 /\ store'[w.key].e = now + w.ttl
                 /\ SameElsewhere(store, store', w.key)]_vars

\* a get purged one expired entry and left another expired entry in place
C29_Witness ==
    /\ last_get.val = NoVal
    /\ last_get.t = now
    /\ last_get.key \notin DOMAIN store
    /\ \E r \in 1..Len(written) : written[r].key = last_get.key
    /\ \E k \in DOMAIN store : now > store[k].e

============================================================================
